---- MODULE Spec2Model ----
(***************************************************************************)
(* The Rbspy sampling backend (pyroscope_backends/pyroscope_rbspy/src/     *)
(* lib.rs) with the channels that connect it to the sampler thread, and    *)
(* the functions of src/utils.rs: pyroscope_ingest, fold and               *)
(* merge_tags_with_app_name.                                               *)
(*                                                                         *)
(* Option<T> is modelled as a sequence of length at most one: <<>> is      *)
(* None and <<x>> is Some(x).                                              *)
(***************************************************************************)
EXTENDS Integers, Sequences, FiniteSets, TLC

VARIABLES
    state,           \* Rbspy::state
    config,          \* Rbspy::config
    sampler,         \* Rbspy::sampler, an Option
    stack_receiver,  \* Rbspy::stack_receiver is Some
    error_receiver,  \* Rbspy::error_receiver is Some
    buffer,          \* the Report behind Rbspy::buffer
    queue_size,      \* capacity of the trace channel behind stack_receiver
    stack_chan,      \* traces buffered in the trace channel
    error_chan,      \* values buffered in the error channel
    sampling,        \* the sampler thread is emitting
    pending,         \* the trace the sampler thread is blocked sending, an Option
    pc,              \* position of the report() call in progress
    v8,              \* report()'s local v8
    call,            \* history of the report() call in progress or last made
    last,            \* the last call made and what it returned
    outputs,         \* the bytes returned by the successful report() calls
    failedStarts,    \* consecutive start() calls the sampler rejected
    sent,            \* send() calls the sampler thread made on the trace channel
    errsSent,        \* send() calls the sampler thread made on the error channel
    records,         \* record() calls made on the Report
    produced,        \* of these, the calls made by other holders of the buffer
    epoch            \* the sends and receives on the channels of the latest start()

backendVars == <<state, config, sampler, stack_receiver, error_receiver, buffer,
                 queue_size, stack_chan, error_chan>>
samplerVars == <<sampling, pending, sent, errsSent>>
reportVars == <<pc, v8, call>>
vars == <<state, config, sampler, stack_receiver, error_receiver, buffer,
          queue_size, stack_chan, error_chan, sampling, pending, pc, v8, call,
          last, outputs, failedStarts, sent, errsSent, records, produced, epoch>>

----------------------------------------------------------------------------
(* Bounds of the model: the sends of the sampler thread on both channels, the
   report() calls that pass the state check, the consecutive start() calls the
   sampler rejects, the record() calls of other holders of the buffer *)

MaxSends == 2
MaxReports == 2
MaxFailedStarts == 2
MaxRecords == 2

\* the traces a report() call finds in the channel when its drain begins
MaxDrain == 3

\* the entries of a pprof Report handed to fold
MaxEntries == 2

----------------------------------------------------------------------------
(* Values *)

None == <<>>
Some(x) == <<x>>

\* the sequences of at most n elements of S
SeqsUpTo(S, n) == UNION {[1..m -> S] : m \in 0..n}

States == {"Uninitialized", "Ready", "Running"}

\* RbspyConfig::default: everything but the pid, which RbspyConfig::new sets
DefaultSampleRate == 100

SampleRates == {0, DefaultSampleRate}

TargetPid == 4242

RbspyConfig(pid, rate) ==
    [pid |-> pid, sample_rate |-> rate, lock_process |-> FALSE,
     time_limit |-> None, with_subprocesses |-> FALSE]

Configs == {RbspyConfig(p, r) : p \in {None, Some(TargetPid)}, r \in SampleRates}

\* rbspy::StackFrame and rbspy::StackTrace, as the sampler sends them
RawFrame(name, path, line) ==
    [name |-> name, relative_path |-> path, absolute_path |-> None, lineno |-> line]

RawTraces ==
    { [pid |-> Some(TargetPid), thread_id |-> Some(7),
       trace |-> <<RawFrame("leaf", "a.rb", 10), RawFrame("main", "a.rb", 1)>>],
      [pid |-> Some(TargetPid), thread_id |-> None,
       trace |-> <<RawFrame("main", "a.rb", 1)>>] }

SamplerErrors == {"Ok", "Err"}

----------------------------------------------------------------------------
(* Conversions of lib.rs *)

StackFrameFrom(frame) ==
    [module |-> None,
     name |-> Some(frame.name),
     filename |-> Some(frame.relative_path),
     relative_path |-> Some(frame.relative_path),
     absolute_path |-> frame.absolute_path,
     line |-> Some(frame.lineno)]

StackTraceFrom(trace) ==
    [pid |-> trace.pid,
     thread_id |-> trace.thread_id,
     thread_name |-> None,
     frames |-> [i \in 1..Len(trace.trace) |-> StackFrameFrom(trace.trace[i])]]

----------------------------------------------------------------------------
(* The Report: a mapping from a trace key to its count *)

Reverse(s) == [i \in 1..Len(s) |-> s[Len(s) + 1 - i]]

RECURSIVE SumSeq(_)
SumSeq(s) == IF s = <<>> THEN 0 ELSE Head(s) + SumSeq(Tail(s))

\* the key of a trace: its thread identity and its frames
KeyOf(trace) ==
    [thread |-> IF trace.thread_name # None THEN trace.thread_name ELSE trace.thread_id,
     frames |-> trace.frames]

Keys == {KeyOf(StackTraceFrom(t)) : t \in RawTraces}

\* the order in which the mapping enumerates its keys
KeyOrder ==
    CHOOSE s \in [1..Cardinality(Keys) -> Keys] : \A i, j \in DOMAIN s : i # j => s[i] # s[j]

EmptyReport == [k \in Keys |-> 0]

record(report, trace) == [report EXCEPT ![KeyOf(trace)] = @ + 1]

clear(report) == EmptyReport

is_empty(report) == \A k \in Keys : report[k] = 0

\* one line of the folded format: the frames root first, then the count
FoldLine(key, count) ==
    [stack |-> Reverse([i \in 1..Len(key.frames) |-> key.frames[i].name]),
     count |-> count]

to_string(report) ==
    LET present == SelectSeq(KeyOrder, LAMBDA k : report[k] > 0)
    IN  [i \in 1..Len(present) |-> FoldLine(present[i], report[present[i]])]

\* the number of samples a report holds, and the number an encoding states
ReportTotal(report) == SumSeq([i \in 1..Len(KeyOrder) |-> report[KeyOrder[i]]])

BytesTotal(bytes) == SumSeq([i \in 1..Len(bytes) |-> bytes[i].count])

----------------------------------------------------------------------------
(* Calls and their results *)

Returned(op, ret, bytes, arg) ==
    [op |-> op, pre |-> state, ret |-> ret, bytes |-> bytes, arg |-> arg]

\* What a report() call found when it began (the Report, the traces a try_recv
\* could take, the values on the error channel) and what it has received since
NoCall ==
    [pre |-> EmptyReport, traces |-> 0, errors |-> 0, got |-> <<>>, errs |-> 0,
     logged |-> 0]

\* no trace sent or received on the channels held
NoEpoch == [sent |-> 0, got |-> 0]

\* Rbspy::new
new ==
    /\ state = "Uninitialized"
    /\ config \in Configs
    /\ sampler = None
    /\ stack_receiver = FALSE
    /\ error_receiver = FALSE
    /\ buffer = EmptyReport
    /\ queue_size = 0
    /\ stack_chan = <<>>
    /\ error_chan = <<>>
    /\ sampling = FALSE
    /\ pending = None
    /\ pc = "idle"
    /\ v8 = <<>>
    /\ call = NoCall
    /\ outputs = <<>>
    /\ failedStarts = 0
    /\ sent = 0
    /\ errsSent = 0
    /\ records = 0
    /\ produced = 0
    /\ epoch = NoEpoch

Init ==
    /\ new
    /\ last = [op |-> "new", pre |-> "Uninitialized", ret |-> "Ok", bytes |-> <<>>,
               arg |-> 0]

----------------------------------------------------------------------------
(* Backend for Rbspy *)

Sampler_new(cfg) ==
    [pid |-> cfg.pid[1], sample_rate |-> cfg.sample_rate,
     lock_process |-> cfg.lock_process, time_limit |-> cfg.time_limit,
     with_subprocesses |-> cfg.with_subprocesses]

\* an initialize() that leaves the sampler unset
initialize_sampler_Unset(cfg) == None

\* initialize(): self.sampler = Some(Sampler::new(..))
initialize_sampler(cfg) == Some(Sampler_new(cfg))

\* The state checks that open initialize(), start(), stop() and report():
\* whether the call returns its lifecycle error
AlreadyInitialized(s) == s # "Uninitialized"

\* an initialize() that does not look at the pid
MissingTarget_Never(cfg) == FALSE

\* initialize(): if self.config.pid.is_none() { return Err(..) }
MissingTarget(cfg) == cfg.pid = None

\* start() that also accepts a Running backend
NotReady_AcceptsRunning(s) == s = "Uninitialized"

NotReady(s) == s # "Ready"

\* stop() and report() that also accept a Ready backend
NotRunning_AcceptsReady(s) == s = "Uninitialized"

NotRunning(s) == s # "Running"

\* the states that initialize(), start() and stop() set on success
AfterInitialize == "Ready"

AfterStart == "Running"

\* stop() that resets the backend
AfterStop_Resets == "Uninitialized"

AfterStop == "Ready"

\* a queue without the headroom for 100 threads
QueueSize_NoHeadroom(rate) == rate * 10

\* start(): let queue_size: usize = self.config.sample_rate as usize * 10 * 100.
\* A u32 times 1000 is below 2^42: it does not overflow a 64-bit usize.
QueueSize(rate) == rate * 10 * 100

\* a start() that keeps the traces of the channel it replaces
sync_channel_KeepsTraces == stack_chan

\* start(): sync_channel(queue_size) and channel() return channels that hold
\* nothing
sync_channel == <<>>

channel == <<>>

\* start(): the receivers of two fresh channels replace the ones held; those
\* are dropped with what they buffer, and a sender blocked on them fails
new_channels ==
    /\ stack_receiver' = TRUE
    /\ error_receiver' = TRUE
    /\ queue_size' = QueueSize(config.sample_rate)
    /\ stack_chan' = sync_channel
    /\ error_chan' = channel
    /\ pending' = None

keep_channels ==
    UNCHANGED <<stack_receiver, error_receiver, queue_size, stack_chan, error_chan,
                pending>>

\* start() that creates the channels before its state check
start_not_ready_NewChannels == new_channels

\* start() returns on its state check before it creates the channels
start_not_ready == keep_channels

\* start() that sets the state before it starts the sampler
start_state_BeforeSampler(samplerOk) == AfterStart

\* start() sets the state after Sampler::start has returned Ok: the two ?
\* before it return early
start_state(samplerOk) ==
    IF sampler # None /\ samplerOk THEN AfterStart ELSE state

initialize ==
    /\ pc = "idle"
    /\ failedStarts' = 0
    /\ IF AlreadyInitialized(state)
       THEN /\ last' = Returned("initialize", "AlreadyInitialized", <<>>, 0)
            /\ UNCHANGED <<state, sampler>>
       ELSE IF MissingTarget(config)
       THEN /\ last' = Returned("initialize", "MissingTarget", <<>>, 0)
            /\ UNCHANGED <<state, sampler>>
       ELSE IF config.pid = None
       THEN \* self.config.pid.unwrap() of None
            /\ last' = Returned("initialize", "Panic", <<>>, 0)
            /\ UNCHANGED <<state, sampler>>
       ELSE /\ sampler' = initialize_sampler(config)
            /\ state' = AfterInitialize
            /\ last' = Returned("initialize", "Ok", <<>>, 0)
    /\ UNCHANGED <<config, stack_receiver, error_receiver, buffer, queue_size,
                   stack_chan, error_chan, samplerVars, reportVars, outputs, records,
                   produced, epoch>>

\* samplerOk: whether Sampler::start accepts
start(samplerOk) ==
    /\ pc = "idle"
    /\ samplerOk \/ failedStarts < MaxFailedStarts
    /\ IF NotReady(state)
       THEN /\ last' = Returned("start", "NotReady", <<>>,
                                [rejected |-> FALSE, retries |-> failedStarts])
            /\ failedStarts' = 0
            /\ start_not_ready
            /\ UNCHANGED <<state, sampling, epoch>>
       ELSE /\ new_channels
            /\ epoch' = NoEpoch
            /\ state' = start_state(samplerOk)
            /\ IF sampler = None
               THEN /\ last' = Returned("start", "SamplerNotSet", <<>>,
                                        [rejected |-> FALSE, retries |-> failedStarts])
                    /\ failedStarts' = 0
                    /\ UNCHANGED sampling
               ELSE IF ~samplerOk
               THEN \* the senders are dropped with the failed Sampler::start
                    /\ last' = Returned("start", "SamplerStartFailed", <<>>,
                                        [rejected |-> TRUE, retries |-> failedStarts])
                    /\ failedStarts' = failedStarts + 1
                    /\ UNCHANGED sampling
               ELSE /\ sampling' = TRUE
                    /\ last' = Returned("start", "Ok", <<>>,
                                        [rejected |-> FALSE, retries |-> failedStarts])
                    /\ failedStarts' = 0
    /\ UNCHANGED <<config, sampler, buffer, sent, errsSent, reportVars, outputs,
                   records, produced>>

stop ==
    /\ pc = "idle"
    /\ failedStarts' = 0
    /\ IF NotRunning(state)
       THEN /\ last' = Returned("stop", "NotRunning", <<>>, 0)
            /\ UNCHANGED <<state, sampling>>
       ELSE IF sampler = None
       THEN /\ last' = Returned("stop", "SamplerNotSet", <<>>, 0)
            /\ UNCHANGED <<state, sampling>>
       ELSE /\ sampling' = FALSE
            /\ state' = AfterStop
            /\ last' = Returned("stop", "Ok", <<>>, 0)
    /\ UNCHANGED <<config, sampler, stack_receiver, error_receiver, buffer, queue_size,
                   stack_chan, error_chan, pending, sent, errsSent, reportVars,
                   outputs, records, produced, epoch>>

\* report(), one step per channel receive and per acquisition of the buffer's
\* lock. The call borrows the backend mutably: no other backend call runs
\* before it returns, while the sampler thread keeps running.
report_check ==
    /\ pc = "idle"
    /\ NotRunning(state) \/ Len(outputs) < MaxReports
    /\ IF NotRunning(state)
       THEN /\ last' = Returned("report", "NotRunning", <<>>, 0)
            /\ failedStarts' = 0
            /\ UNCHANGED <<pc, call>>
       ELSE /\ pc' = "errors"
            /\ call' = [pre |-> buffer,
                        traces |-> Len(stack_chan)
                                   + (IF queue_size = 0 THEN Len(pending) ELSE 0),
                        errors |-> Len(error_chan), got |-> <<>>, errs |-> 0,
                        logged |-> 0]
            /\ UNCHANGED <<last, failedStarts>>
    /\ UNCHANGED <<backendVars, samplerVars, v8, outputs, records, produced, epoch>>

\* a report() that returns the sampler's error
ErrorAborts_OnErr(result) == result = "Err"

\* match error { Ok(_) => {}, Err(e) => log::error!(..) }: no arm returns
ErrorAborts(result) == FALSE

\* a report() that waits for the next trace when the channel is empty
AfterTraces_Waits == "traces"

\* where report() goes on when try_recv finds the trace channel empty
AfterTraces == "encode"

\* for error in error_receiver.try_iter(): one try_recv per step
report_errors ==
    /\ pc = "errors"
    /\ IF ~error_receiver
       THEN /\ last' = Returned("report", "ReceiverNotSet", <<>>, 0)
            /\ failedStarts' = 0
            /\ pc' = "idle"
            /\ UNCHANGED <<error_chan, call>>
       ELSE IF error_chan # <<>> /\ ErrorAborts(Head(error_chan))
       THEN /\ last' = Returned("report", "SamplerError", <<>>, 0)
            /\ failedStarts' = 0
            /\ pc' = "idle"
            /\ error_chan' = Tail(error_chan)
            /\ UNCHANGED call
       ELSE IF error_chan # <<>>
       THEN /\ error_chan' = Tail(error_chan)
            /\ call' = [call EXCEPT
                            !.errs = @ + 1,
                            !.logged = @ + (IF Head(error_chan) = "Err" THEN 1 ELSE 0)]
            /\ UNCHANGED <<last, failedStarts, pc>>
       ELSE /\ pc' = "traces"
            /\ UNCHANGED <<last, failedStarts, error_chan, call>>
    /\ UNCHANGED <<state, config, sampler, stack_receiver, error_receiver, buffer,
                   queue_size, stack_chan, samplerVars, v8, outputs, records,
                   produced, epoch>>

\* a report() that counts a trace key once, however often it is received
report_record_Once(report, trace) ==
    IF report[KeyOf(StackTraceFrom(trace))] > 0 THEN report
    ELSE record(report, StackTraceFrom(trace))

\* let own_trace: StackTrace = Into::<StackTraceWrapper>::into(trace).into();
\* buffer.lock()?.record(own_trace)?
report_record(report, trace) == record(report, StackTraceFrom(trace))

\* for trace in stack_receiver.try_iter(): one try_recv, and the record of
\* what it yields, per step. On a channel of capacity 0 try_recv takes the
\* trace of the sender that is blocked in send().
report_traces ==
    /\ pc = "traces"
    /\ IF ~stack_receiver
       THEN /\ last' = Returned("report", "ReceiverNotSet", <<>>, 0)
            /\ failedStarts' = 0
            /\ pc' = "idle"
            /\ UNCHANGED <<stack_chan, pending, buffer, call, records, produced, epoch>>
       ELSE IF stack_chan # <<>>
       THEN /\ stack_chan' = Tail(stack_chan)
            /\ buffer' = report_record(buffer, Head(stack_chan))
            /\ call' = [call EXCEPT !.got = Append(@, Head(stack_chan))]
            /\ records' = records + 1
            /\ epoch' = [epoch EXCEPT !.got = @ + 1]
            /\ UNCHANGED <<last, failedStarts, pc, pending, produced>>
       ELSE IF pending # None /\ queue_size = 0
       THEN /\ pending' = None
            /\ buffer' = report_record(buffer, pending[1])
            /\ call' = [call EXCEPT !.got = Append(@, pending[1])]
            /\ records' = records + 1
            /\ epoch' = [epoch EXCEPT !.got = @ + 1]
            /\ UNCHANGED <<last, failedStarts, pc, stack_chan, produced>>
       ELSE /\ pc' = AfterTraces
            /\ UNCHANGED <<last, failedStarts, stack_chan, pending, buffer, call,
                           records, produced, epoch>>
    /\ UNCHANGED <<state, config, sampler, stack_receiver, error_receiver, queue_size,
                   error_chan, sampling, sent, errsSent, v8, outputs>>

\* let v8 = buffer.lock()?.to_string().into_bytes(): the lock is released at
\* the end of the statement
report_encode ==
    /\ pc = "encode"
    /\ v8' = to_string(buffer)
    /\ pc' = "clear"
    /\ UNCHANGED <<backendVars, samplerVars, call, last, outputs, failedStarts,
                   records, produced, epoch>>

\* a report() that returns without clearing the Report
report_cleared_Keeps(report) == report

\* buffer.lock()?.clear()
report_cleared(report) == clear(report)

\* buffer.lock()?.clear(); Ok(v8)
report_clear ==
    /\ pc = "clear"
    /\ buffer' = report_cleared(buffer)
    /\ last' = Returned("report", "Ok", v8, 0)
    /\ failedStarts' = 0
    /\ outputs' = Append(outputs, v8)
    /\ v8' = <<>>
    /\ pc' = "idle"
    /\ UNCHANGED <<state, config, sampler, stack_receiver, error_receiver, queue_size,
                   stack_chan, error_chan, samplerVars, call, records, produced,
                   epoch>>

----------------------------------------------------------------------------
(* The sampler thread: the holder of the two senders start() hands over *)

\* SyncSender::send: buffers the trace when the channel has room; otherwise
\* the thread blocks with it until there is room (or, with capacity 0, until a
\* try_recv takes it)
sampler_send_trace(trace) ==
    /\ sampling
    /\ IF pending = None
       THEN /\ sent + errsSent < MaxSends
            /\ sent' = sent + 1
            /\ epoch' = [epoch EXCEPT !.sent = @ + 1]
            /\ IF Len(stack_chan) < queue_size
               THEN /\ stack_chan' = Append(stack_chan, trace)
                    /\ UNCHANGED pending
               ELSE /\ pending' = Some(trace)
                    /\ UNCHANGED stack_chan
       ELSE /\ trace = pending[1]
            /\ Len(stack_chan) < queue_size
            /\ stack_chan' = Append(stack_chan, trace)
            /\ pending' = None
            /\ UNCHANGED <<sent, epoch>>
    /\ UNCHANGED <<state, config, sampler, stack_receiver, error_receiver, buffer,
                   queue_size, error_chan, sampling, errsSent, reportVars, last,
                   outputs, failedStarts, records, produced>>

\* Sender::send on the unbounded error channel never blocks
sampler_send_error(result) ==
    /\ sampling
    /\ sent + errsSent < MaxSends
    /\ errsSent' = errsSent + 1
    /\ error_chan' = Append(error_chan, result)
    /\ UNCHANGED <<state, config, sampler, stack_receiver, error_receiver, buffer,
                   queue_size, stack_chan, sampling, pending, sent, reportVars, last,
                   outputs, failedStarts, records, produced, epoch>>

----------------------------------------------------------------------------
(* pyroscope_ingest of src/utils.rs *)

\* A u64 is written by its distance from one end of the range:
\* [top |-> FALSE, off |-> n] is n and [top |-> TRUE, off |-> n] is 2^64 - 1 - n.
U64(n) == [top |-> FALSE, off |-> n]

U64FromMax(n) == [top |-> TRUE, off |-> n]

\* (2^64 - 1) % m, from 2^64 = (2^16)^4
U64MaxRem(m) == (((((2^16) % m)^4) % m) + m - 1) % m

\* u64::checked_rem: None when the divisor is 0
checked_rem(v, m) ==
    IF m = 0 THEN None
    ELSE IF v.top THEN Some((U64MaxRem(m) + m - (v.off % m)) % m)
    ELSE Some(v.off % m)

\* v - n for n <= v
U64Sub(v, n) == IF v.top THEN U64FromMax(v.off + n) ELSE U64(v.off - n)

\* whether v + n exceeds 2^64 - 1, and v + n modulo 2^64
U64AddOverflows(v, n) == v.top /\ n > v.off

U64WrappingAdd(v, n) ==
    IF v.top
    THEN IF n > v.off THEN U64(n - v.off - 1) ELSE U64FromMax(v.off - n)
    ELSE U64(v.off + n)

\* the window width of pyroscope_ingest
WindowWidth == 10

\* an ingest that posts empty bodies too
SkipsIngest_Never(buffer_) == FALSE

\* if buffer.is_empty() { return Ok(()); }
SkipsIngest(buffer_) == buffer_ = <<>>

\* an ingest that drops the error of the request
SendResult_Swallowed(transportOk) == "Ok"

\* client.post(..)...send().await?; Ok(()): the ? returns the error of send()
SendResult(transportOk) == IF transportOk THEN "Ok" ELSE "TransportError"

\* What pyroscope_ingest returns and the requests it issues.
\* transportOk: whether send().await succeeds; overflowChecks: whether the
\* build panics on arithmetic overflow (otherwise the sum wraps).
pyroscope_ingest(window_start, sample_rate, buffer_, transportOk, overflowChecks) ==
    IF SkipsIngest(buffer_)
    THEN [ret |-> "Ok", posts |-> <<>>]
    ELSE LET s_start == U64Sub(window_start, checked_rem(window_start, WindowWidth)[1])
             s_until == U64WrappingAdd(s_start, WindowWidth)
             post == [path |-> "/ingest", from |-> s_start, until |-> s_until,
                      format |-> "folded", sampleRate |-> sample_rate,
                      spyName |-> "pprof-rs", body |-> buffer_]
         IN  IF U64AddOverflows(s_start, WindowWidth) /\ overflowChecks
             THEN [ret |-> "Panic", posts |-> <<>>]
             ELSE [ret |-> SendResult(transportOk), posts |-> <<post>>]

WindowStarts == {U64(1005), U64FromMax(0), U64FromMax(12)}

\* the export cycle: the bytes of a report() handed to pyroscope_ingest
ingest(window_start, body, transportOk, overflowChecks) ==
    /\ pc = "idle"
    /\ last.op = "report"
    /\ last.ret = "Ok"
    /\ LET r == pyroscope_ingest(window_start, config.sample_rate, body, transportOk,
                                 overflowChecks)
       IN  last' = Returned("ingest", r.ret, body,
                            [start |-> window_start, posts |-> r.posts,
                             transportOk |-> transportOk,
                             overflowChecks |-> overflowChecks])
    /\ UNCHANGED <<backendVars, samplerVars, reportVars, outputs, failedStarts, records,
                   produced, epoch>>

----------------------------------------------------------------------------
(* fold of src/utils.rs: the folded format of a pprof Report.

   report.data is written as the sequence of its (key, value) entries in the
   order in which the HashMap enumerates them. A key has the fields frames (a
   sequence of frames in capture order, each frame a sequence of symbols),
   thread_name and thread_id; a symbol is written as the name it displays.
   The writer is the text written so far. *)

\* frame.len() - 1 and key.frames.len() - 1 on usize: of 0 it panics in a
\* build with overflow checks and is usize::MAX in a build without
USizeSubOne(len) == IF len = 0 THEN U64FromMax(0) ELSE U64(len - 1)

\* a fold that writes the frames in capture order
fold_frame_order_Captured(frames) == frames

\* key.frames.iter().rev()
fold_frame_order(frames) == Reverse(frames)

\* for (index, symbol) in frame.iter().rev().enumerate(): symbols holds what
\* is left of the reversed frame
RECURSIVE fold_symbols(_, _, _)
fold_symbols(symbols, index, last_symbol) ==
    IF symbols = <<>> THEN ""
    ELSE (IF U64(index) = last_symbol THEN Head(symbols) ELSE Head(symbols) \o ";")
         \o fold_symbols(Tail(symbols), index + 1, last_symbol)

\* for (index, frame) in key.frames.iter().rev().enumerate(): frames holds
\* what is left of the reversed sequence. A panic keeps what was written.
RECURSIVE fold_frames(_, _, _, _)
fold_frames(frames, index, last_frame, overflowChecks) ==
    IF frames = <<>> THEN [panic |-> FALSE, text |-> ""]
    ELSE IF Head(frames) = <<>> /\ overflowChecks THEN [panic |-> TRUE, text |-> ""]
    ELSE LET frame == Head(frames)
             here == fold_symbols(Reverse(frame), 0, USizeSubOne(Len(frame)))
                     \o (IF U64(index) # last_frame THEN ";" ELSE "")
             rest == fold_frames(Tail(frames), index + 1, last_frame, overflowChecks)
         IN  [panic |-> rest.panic, text |-> here \o rest.text]

\* the body of the loop over report.data
fold_entry(key, value, with_thread_name, overflowChecks) ==
    LET prefix == IF ~with_thread_name THEN ""
                  ELSE IF key.thread_name # "" THEN key.thread_name \o ";"
                  ELSE ToString(key.thread_id) \o ";"
        written == fold_frames(fold_frame_order(key.frames), 0,
                               USizeSubOne(Len(key.frames)), overflowChecks)
    IN  IF key.frames = <<>> /\ overflowChecks THEN [panic |-> TRUE, text |-> prefix]
        ELSE IF written.panic THEN [panic |-> TRUE, text |-> prefix \o written.text]
        ELSE [panic |-> FALSE,
              text |-> prefix \o written.text \o " " \o ToString(value) \o "\n"]

\* what fold returns and what it has written
RECURSIVE fold(_, _, _)
fold(report, with_thread_name, overflowChecks) ==
    IF report = <<>> THEN [ret |-> "Ok", writer |-> ""]
    ELSE LET line == fold_entry(Head(report).key, Head(report).value, with_thread_name,
                                overflowChecks)
             rest == fold(Tail(report), with_thread_name, overflowChecks)
         IN  IF line.panic THEN [ret |-> "Panic", writer |-> line.text]
             ELSE [ret |-> rest.ret, writer |-> line.text \o rest.writer]

FoldKeys ==
    [frames : { <<>>,
                << <<"f0">> >>,
                << <<"f0">>, <<"f1">>, <<"f2">> >>,
                << <<"inlined", "f0">>, <<"f1">> >>,
                << <<>>, <<"f1">> >> },
     thread_name : {"", "worker"},
     thread_id : {7}]

FoldEntries == [key : FoldKeys, value : {1, 7}]

\* the enumerations of the maps of up to MaxEntries entries
FoldReports ==
    {r \in SeqsUpTo(FoldEntries, MaxEntries) :
        \A i, j \in DOMAIN r : i # j => r[i].key # r[j].key}

\* a call of fold or of merge_tags_with_app_name that has not returned
Called(op, arg) == [op |-> op, pre |-> "Uninitialized", ret |-> "Called", bytes |-> <<>>,
                    arg |-> arg]

FoldCalls ==
    {Called("fold", arg) :
        arg \in [report : FoldReports, with_thread_name : BOOLEAN,
                 overflowChecks : BOOLEAN]}

call_fold ==
    /\ last.op = "fold"
    /\ last.ret = "Called"
    /\ LET r == fold(last.arg.report, last.arg.with_thread_name, last.arg.overflowChecks)
       IN  last' = Returned("fold", r.ret, r.writer, last.arg)
    /\ UNCHANGED <<backendVars, samplerVars, reportVars, outputs, failedStarts, records,
                   produced, epoch>>

----------------------------------------------------------------------------
(* merge_tags_with_app_name of src/utils.rs. A String is written as the
   sequence of its bytes, and String's order is the lexicographic order of
   these sequences. *)

\* String's Ord
RECURSIVE StrLess(_, _)
StrLess(a, b) ==
    IF a = <<>> THEN b # <<>>
    ELSE IF b = <<>> THEN FALSE
    ELSE IF Head(a) # Head(b) THEN Head(a) < Head(b)
    ELSE StrLess(Tail(a), Tail(b))

\* "__name__"
ReservedKey == <<95, 95, 110, 97, 109, 101, 95, 95>>

\* format!("{}={}", k, v)
KeyValue(k, v) == k \o <<61>> \o v

\* format!("{}{{{}}}", application_name, tags_str)
NameWithTags(application_name, tags_str) ==
    application_name \o <<123>> \o tags_str \o <<125>>

RECURSIVE insert_sorted(_, _)
insert_sorted(x, v) ==
    IF v = <<>> THEN <<x>>
    ELSE IF StrLess(x, Head(v)) THEN <<x>> \o v
    ELSE <<Head(v)>> \o insert_sorted(x, Tail(v))

\* a merge that keeps the tags in the order of the map
sort_Unsorted(v) == v

\* tags_vec.sort()
RECURSIVE sort(_)
sort(v) == IF v = <<>> THEN <<>> ELSE insert_sorted(Head(v), sort(Tail(v)))

\* tags_vec.join(",")
RECURSIVE join(_, _)
join(v, sep) ==
    IF v = <<>> THEN <<>>
    ELSE IF Len(v) = 1 THEN v[1]
    ELSE v[1] \o sep \o join(Tail(v), sep)

\* tags: a function from its keys to their values; order: the sequence in
\* which tags.into_iter() yields the keys
merge_tags_with_app_name(application_name, tags, order) ==
    LET kept == SelectSeq(order, LAMBDA k : k # ReservedKey)
        tags_vec == sort([i \in 1..Len(kept) |-> KeyValue(kept[i], tags[kept[i]])])
        tags_str == join(tags_vec, <<44>>)
    IN  IF tags_str # <<>> THEN NameWithTags(application_name, tags_str)
        ELSE application_name

\* "my.awesome.app.cpu" and "app"
AppNames ==
    { <<109, 121, 46, 97, 119, 101, 115, 111, 109, 101, 46, 97, 112, 112, 46, 99, 112,
        117>>,
      <<97, 112, 112>> }

\* env=staging, region=us-west-1, __name__=reserved, a=1, a-b=2
AllTags ==
    ( <<101, 110, 118>> :> <<115, 116, 97, 103, 105, 110, 103>> ) @@
    ( <<114, 101, 103, 105, 111, 110>> :> <<117, 115, 45, 119, 101, 115, 116, 45, 49>> ) @@
    ( ReservedKey :> <<114, 101, 115, 101, 114, 118, 101, 100>> ) @@
    ( <<97>> :> <<49>> ) @@
    ( <<97, 45, 98>> :> <<50>> )

\* the tag maps: the restrictions of AllTags
TagMaps == {[k \in K |-> AllTags[k]] : K \in SUBSET DOMAIN AllTags}

\* the orders in which a HashMap can enumerate its keys
IterationOrders(tags) ==
    {o \in [1..Cardinality(DOMAIN tags) -> DOMAIN tags] :
        \A i, j \in DOMAIN o : i # j => o[i] # o[j]}

MergeCalls ==
    UNION { {Called("merge_tags_with_app_name",
                    [application_name |-> n, tags |-> t, order |-> o]) :
                n \in AppNames, o \in IterationOrders(t)} : t \in TagMaps }

call_merge_tags_with_app_name ==
    /\ last.op = "merge_tags_with_app_name"
    /\ last.ret = "Called"
    /\ last' = Returned("merge_tags_with_app_name", "Ok",
                        merge_tags_with_app_name(last.arg.application_name,
                                                 last.arg.tags, last.arg.order),
                        last.arg)
    /\ UNCHANGED <<backendVars, samplerVars, reportVars, outputs, failedStarts, records,
                   produced, epoch>>

----------------------------------------------------------------------------

(* Another holder of a clone of the Arc<Mutex<Report>>: buffer.lock()?.record(t).
   The lock is free between any two steps of report(). *)
producer_record(trace) ==
    /\ produced < MaxRecords
    /\ buffer' = record(buffer, StackTraceFrom(trace))
    /\ records' = records + 1
    /\ produced' = produced + 1
    /\ UNCHANGED <<state, config, sampler, stack_receiver, error_receiver, queue_size,
                   stack_chan, error_chan, samplerVars, reportVars, last, outputs,
                   failedStarts, epoch>>

----------------------------------------------------------------------------

\* the steps of a report() call that has passed its state check
report_body ==
    \/ report_errors
    \/ report_traces
    \/ report_encode
    \/ report_clear

report_step ==
    \/ report_check
    \/ report_body

backend_call ==
    \/ initialize
    \/ \E samplerOk \in BOOLEAN : start(samplerOk)
    \/ stop
    \/ report_step

sampler_step ==
    \/ \E trace \in RawTraces : sampler_send_trace(trace)
    \/ \E result \in SamplerErrors : sampler_send_error(result)

Next ==
    \/ backend_call
    \/ sampler_step
    \/ \E window_start \in WindowStarts, body \in {<<>>, last.bytes},
          transportOk \in BOOLEAN, overflowChecks \in BOOLEAN :
            ingest(window_start, body, transportOk, overflowChecks)

Spec == Init /\ [][Next]_vars

\* the backend with producers that record on the shared Report directly
NextShared ==
    \/ initialize
    \/ start(TRUE)
    \/ stop
    \/ report_step
    \/ \E trace \in RawTraces : sampler_send_trace(trace)
    \/ \E trace \in RawTraces : producer_record(trace)

SpecShared == Init /\ [][NextShared]_vars

\* the thread that runs a report() call keeps being scheduled
FairSpec == Init /\ [][backend_call \/ sampler_step]_vars /\ WF_vars(report_body)

\* the traces of a channel that several processes were sampled into: the
\* first trace of RawTraces is also seen in a subprocess
DrainTraces ==
    RawTraces \cup
    { [pid |-> Some(TargetPid + 1), thread_id |-> Some(7),
       trace |-> <<RawFrame("leaf", "a.rb", 10), RawFrame("main", "a.rb", 1)>>] }

\* A Running backend at the point where report() begins the drain of its
\* trace channel (lib.rs 243): the sampler of the default rate has sent up to
\* MaxDrain traces since start() and the Report is empty
InitDrain ==
    /\ state = "Running"
    /\ config = RbspyConfig(Some(TargetPid), DefaultSampleRate)
    /\ sampler = Some(Sampler_new(config))
    /\ stack_receiver = TRUE
    /\ error_receiver = TRUE
    /\ buffer = EmptyReport
    /\ queue_size = QueueSize(DefaultSampleRate)
    /\ stack_chan \in SeqsUpTo(DrainTraces, MaxDrain)
    /\ error_chan = <<>>
    /\ sampling = TRUE
    /\ pending = None
    /\ pc = "traces"
    /\ v8 = <<>>
    /\ call = [NoCall EXCEPT !.traces = Len(stack_chan)]
    /\ last = [op |-> "start", pre |-> "Ready", ret |-> "Ok", bytes |-> <<>>,
               arg |-> [rejected |-> FALSE, retries |-> 0]]
    /\ outputs = <<>>
    /\ failedStarts = 0
    /\ sent = Len(stack_chan)
    /\ errsSent = 0
    /\ records = 0
    /\ produced = 0
    /\ epoch = [sent |-> Len(stack_chan), got |-> 0]

NextDrain ==
    \/ report_traces
    \/ report_encode
    \/ report_clear

\* the drain, the encoding and the clear of one report() call
SpecDrain == InitDrain /\ [][NextDrain]_vars

\* fold or merge_tags_with_app_name called with its arguments
InitUtils ==
    /\ new
    /\ last \in FoldCalls \cup MergeCalls

NextUtils ==
    \/ call_fold
    \/ call_merge_tags_with_app_name

\* the functions of src/utils.rs applied to their inputs
SpecUtils == InitUtils /\ [][NextUtils]_vars

----------------------------------------------------------------------------
(* Properties *)

TypeOK ==
    /\ state \in States
    /\ pc \in {"idle", "errors", "traces", "encode", "clear"}
    /\ Len(stack_chan) <= queue_size

RECURSIVE RecordAll(_, _)
RecordAll(report, traces) ==
    IF traces = <<>> THEN report
    ELSE RecordAll(record(report, StackTraceFrom(Head(traces))), Tail(traces))

OutputsTotal == SumSeq([i \in 1..Len(outputs) |-> BytesTotal(outputs[i])])

\* C1: the state changes only along Uninitialized -> Ready by a successful
\* initialize(), Ready -> Running by a successful start() and Running -> Ready
\* by a successful stop(); no step of report() changes it, and it never
\* returns to Uninitialized.
C1_Transitions ==
    [][ /\ state' # state =>
             \/ /\ state = "Uninitialized" /\ state' = "Ready"
                /\ initialize /\ last'.op = "initialize" /\ last'.ret = "Ok"
             \/ /\ state = "Ready" /\ state' = "Running"
                /\ (\E ok \in BOOLEAN : start(ok)) /\ last'.op = "start" /\ last'.ret = "Ok"
             \/ /\ state = "Running" /\ state' = "Ready"
                /\ stop /\ last'.op = "stop" /\ last'.ret = "Ok"
        /\ report_step => state' = state
        /\ state # "Uninitialized" => state' # "Uninitialized" ]_vars

C1_Witness ==
    /\ state = "Ready"
    /\ last.op = "stop"
    /\ last.ret = "Ok"
    /\ outputs # <<>>

\* C2: a call made in the wrong state fails: start() with NotReady unless the
\* state is Ready, initialize() with AlreadyInitialized unless it is
\* Uninitialized, stop() and report() with NotRunning unless it is Running.
C2_WrongStateFails ==
    /\ (last.op = "start" /\ last.pre # "Ready") => last.ret = "NotReady"
    /\ (last.op = "initialize" /\ last.pre # "Uninitialized") =>
           last.ret = "AlreadyInitialized"
    /\ (last.op \in {"stop", "report"} /\ last.pre # "Running") =>
           last.ret = "NotRunning"

C2_Witness ==
    /\ last.op = "report"
    /\ last.pre = "Ready"
    /\ last.ret = "NotRunning"
    /\ outputs # <<>>

LifecycleErrors == {"AlreadyInitialized", "NotReady", "NotRunning", "MissingTarget"}

\* C3: a call that returns AlreadyInitialized, NotReady, NotRunning or
\* MissingTarget leaves the state, the sampler, both receivers, the contents
\* of both channels and the Report as they were.
C3_ErrorsChangeNothing ==
    [][ ( /\ initialize \/ (\E ok \in BOOLEAN : start(ok)) \/ stop \/ report_check
          /\ last'.op \in {"initialize", "start", "stop", "report"}
          /\ last'.ret \in LifecycleErrors
          /\ pc' = "idle" )
        => UNCHANGED <<backendVars, sampling, pending>> ]_vars

C3_Witness ==
    /\ last.op = "start"
    /\ last.ret = "NotReady"
    /\ last.pre = "Running"
    /\ stack_chan # <<>>
    /\ error_chan # <<>>

\* C4: a start() made in Ready that the sampler rejects returns
\* SamplerStartFailed and leaves the state Ready, so that the next start()
\* passes the state check, however many starts were rejected before.
C4_FailedStartStaysReady ==
    (last.op = "start" /\ last.pre = "Ready" /\ last.arg.rejected) =>
        /\ last.ret = "SamplerStartFailed"
        /\ state = "Ready"
        /\ ~NotReady(state)
        /\ pc = "idle"
        /\ failedStarts = last.arg.retries + 1

C4_Witness ==
    /\ last.op = "start"
    /\ last.ret = "Ok"
    /\ last.arg.retries = MaxFailedStarts
    /\ state = "Running"

C6_FlushAfterStop ==
    (last.op = "report" /\ last.pre = "Ready" /\ stack_chan # <<>>) =>
        /\ last.ret = "Ok"
        /\ BytesTotal(last.bytes) >= Len(stack_chan)

\* C6: stop() leaves the trace channel as it is, and a report() called after
\* it, before a new start(), fails with NotRunning and leaves the traces in
\* the channel: no output contains them.
C6_StopKeepsChannel ==
    [][ /\ (stop /\ last'.ret = "Ok") => UNCHANGED <<stack_chan, pending, buffer>>
        /\ (report_check /\ state = "Ready") =>
               /\ last'.op = "report"
               /\ last'.ret = "NotRunning"
               /\ pc' = "idle"
               /\ UNCHANGED <<stack_chan, pending, buffer, outputs>> ]_vars

C6_Witness ==
    /\ last.op = "report"
    /\ last.pre = "Ready"
    /\ last.ret = "NotRunning"
    /\ stack_chan # <<>>

\* C7: the trace channel that start() creates has capacity
\* sample_rate * 10 * 100 and never holds more; a send on a full channel
\* leaves the sender blocked with its trace until a receive of report() takes
\* a trace, and no send or receive loses a trace that is in the channel.
C7_Capacity ==
    /\ stack_receiver => queue_size = config.sample_rate * 10 * 100
    /\ Len(stack_chan) <= queue_size
    /\ pending # None => Len(stack_chan) = queue_size

C7_Step ==
    /\ sent' # sent =>
           /\ sent' = sent + 1
           /\ Len(stack_chan') + Len(pending') = Len(stack_chan) + Len(pending) + 1
    /\ (pending # None /\ pending' # pending) =>
           \/ report_traces /\ call'.got = Append(call.got, pending[1])
           \/ Len(stack_chan) < queue_size /\ stack_chan' = Append(stack_chan, pending[1])
           \/ (\E ok \in BOOLEAN : start(ok)) /\ last'.ret # "NotReady"
    /\ stack_chan' # stack_chan =>
           \/ \E t \in RawTraces : stack_chan' = Append(stack_chan, t)
           \/ /\ report_traces
              /\ stack_chan' = Tail(stack_chan)
              /\ call'.got = Append(call.got, Head(stack_chan))
              /\ buffer' = record(buffer, StackTraceFrom(Head(stack_chan)))
           \/ (\E ok \in BOOLEAN : start(ok)) /\ last'.ret # "NotReady"

C7_Backpressure == []C7_Capacity /\ [][C7_Step]_vars

C7_Witness ==
    /\ pending # None
    /\ Len(stack_chan) = queue_size
    /\ call.got # <<>>
    /\ sent + errsSent = MaxSends

\* C8 as claimed: report() processes only the traces that had arrived when
\* the call began.
C8_OnlyArrived == Len(call.got) <= call.traces

\* C8: a report() call made while Running waits for nothing and returns under
\* fair scheduling once it finds the trace channel empty, which it does when
\* the producers send finitely many traces during the call; it also processes
\* the traces that arrive while it drains.
C8_ReportReturns ==
    /\ [](pc # "idle" => ENABLED <<report_body>>_vars)
    /\ (pc # "idle") ~> (pc = "idle" /\ last.op = "report" /\ last.ret = "Ok")

C8_Witness ==
    /\ pc = "idle"
    /\ last.op = "report"
    /\ last.ret = "Ok"
    /\ Len(call.got) > call.traces

\* C9: whatever the error channel holds, a report() made while Running
\* returns Ok, has consumed every value that was on the error channel and
\* every trace that was available when it began, and returns the encoding of
\* the Report with the received traces recorded: its bytes do not depend on
\* the error channel.
C9_ErrorsDoNotAbort ==
    /\ (last.op = "report" /\ last.pre = "Running") => last.ret = "Ok"
    /\ (last.op = "report" /\ last.ret = "Ok" /\ pc = "idle") =>
           /\ call.errs >= call.errors
           /\ Len(call.got) >= call.traces
           /\ last.bytes = to_string(RecordAll(call.pre, call.got))

C9_Witness ==
    /\ last.op = "report"
    /\ last.ret = "Ok"
    /\ pc = "idle"
    /\ call.errors > 0
    /\ call.logged > 0
    /\ call.got # <<>>

\* C10: a report() made while Running that finds the Report empty and
\* receives no trace returns Ok with no bytes, and an ingest of an empty body
\* returns Ok without sending a request.
C10_EmptyWindow ==
    /\ (last.op = "report" /\ last.pre = "Running" /\ pc = "idle"
            /\ is_empty(call.pre) /\ call.got = <<>>) =>
           (last.ret = "Ok" /\ last.bytes = <<>>)
    /\ (last.op = "ingest" /\ last.bytes = <<>>) =>
           (last.ret = "Ok" /\ last.arg.posts = <<>>)

C10_Witness ==
    /\ last.op = "ingest"
    /\ last.bytes = <<>>
    /\ last.arg.posts = <<>>
    /\ outputs # <<>>
    /\ outputs[Len(outputs)] = <<>>

\* the number of traces of a sequence that have the key k
Occurrences(k, traces) ==
    Cardinality({i \in DOMAIN traces : KeyOf(StackTraceFrom(traces[i])) = k})

\* the sequences that hold the traces of s in another order
Reorderings(s) == {[i \in DOMAIN s |-> s[f[i]]] : f \in Permutations(DOMAIN s)}

\* C11: after any sequence of records on an empty Report, the count of each
\* key is the number of recorded traces that have this key, and recording the
\* same traces in any other order gives the same Report.
C11_CountsCommute ==
    (pc \in {"traces", "encode", "clear"} /\ is_empty(call.pre)) =>
        /\ \A k \in Keys : buffer[k] = Occurrences(k, call.got)
        /\ \A other \in Reorderings(call.got) : RecordAll(EmptyReport, other) = buffer

C11_Witness ==
    /\ pc = "clear"
    /\ Len(call.got) = 3
    /\ call.got[1] # call.got[3]
    /\ KeyOf(StackTraceFrom(call.got[1])) = KeyOf(StackTraceFrom(call.got[3]))
    /\ KeyOf(StackTraceFrom(call.got[1])) # KeyOf(StackTraceFrom(call.got[2]))
    /\ buffer[KeyOf(StackTraceFrom(call.got[1]))] = 2
    /\ buffer[KeyOf(StackTraceFrom(call.got[2]))] = 1

\* the symbols of a sequence of frames, in capture order
RECURSIVE Flatten(_)
Flatten(frames) == IF frames = <<>> THEN <<>> ELSE Head(frames) \o Flatten(Tail(frames))

RECURSIVE JoinText(_, _)
JoinText(names, sep) ==
    IF names = <<>> THEN ""
    ELSE IF Len(names) = 1 THEN names[1]
    ELSE names[1] \o sep \o JoinText(Tail(names), sep)

\* the line of an entry: its symbols root first, one space, the count
FoldedLine(entry) ==
    JoinText(Reverse(Flatten(entry.key.frames)), ";") \o " " \o ToString(entry.value)
    \o "\n"

RECURSIVE FoldedLines(_)
FoldedLines(report) ==
    IF report = <<>> THEN "" ELSE FoldedLine(Head(report)) \o FoldedLines(Tail(report))

\* every entry has a frame and every frame has a symbol
HasFrames(report) ==
    \A i \in DOMAIN report :
        /\ report[i].key.frames # <<>>
        /\ \A j \in DOMAIN report[i].key.frames : report[i].key.frames[j] # <<>>

\* frames f0 (leaf), f1, f2 (root), count 7
ExampleReport ==
    << [key |-> [frames |-> << <<"f0">>, <<"f1">>, <<"f2">> >>, thread_name |-> "",
                 thread_id |-> 7],
        value |-> 7] >>

\* C12: fold without thread names writes, for each entry that has frames, one
\* line: the frames from the root to the leaf separated by single ";", no
\* separator after the last one, one space, the count and a newline; frames
\* f0, f1, f2 with count 7 give "f2;f1;f0 7\n".
C12_FoldLine ==
    (last.op = "fold" /\ last.ret # "Called" /\ ~last.arg.with_thread_name
        /\ HasFrames(last.arg.report)) =>
        /\ last.ret = "Ok"
        /\ last.bytes = FoldedLines(last.arg.report)
        /\ last.arg.report = ExampleReport => last.bytes = "f2;f1;f0 7\n"

C12_Witness ==
    /\ last.op = "fold"
    /\ last.ret = "Ok"
    /\ ~last.arg.with_thread_name
    /\ last.arg.overflowChecks
    /\ last.arg.report = ExampleReport
    /\ last.bytes = "f2;f1;f0 7\n"

\* the rendered tags of a map, without the reserved key
Rendered(tags) == {KeyValue(k, tags[k]) : k \in DOMAIN tags \ {ReservedKey}}

\* the ascending enumeration of a set of strings
Ascending(S) ==
    CHOOSE v \in [1..Cardinality(S) -> S] :
        \A i, j \in DOMAIN v : i < j => StrLess(v[i], v[j])

\* the tags of the test merge_tags_with_app_name_with_tags
ExampleTags ==
    [k \in {<<101, 110, 118>>, <<114, 101, 103, 105, 111, 110>>, ReservedKey} |->
        AllTags[k]]

\* "my.awesome.app.cpu"
ExampleName ==
    <<109, 121, 46, 97, 119, 101, 115, 111, 109, 101, 46, 97, 112, 112, 46, 99, 112,
      117>>

\* "my.awesome.app.cpu{env=staging,region=us-west-1}"
ExampleMerged ==
    <<109, 121, 46, 97, 119, 101, 115, 111, 109, 101, 46, 97, 112, 112, 46, 99, 112,
      117, 123, 101, 110, 118, 61, 115, 116, 97, 103, 105, 110, 103, 44, 114, 101,
      103, 105, 111, 110, 61, 117, 115, 45, 119, 101, 115, 116, 45, 49, 125>>

\* C13: merge_tags_with_app_name returns the name followed, in braces, by the
\* key=value strings of the tags other than __name__, in ascending order of
\* the whole strings and joined by ","; it returns the name alone when no
\* such tag exists; the order in which the map enumerates its keys does not
\* matter.
C13_MergeTags ==
    (last.op = "merge_tags_with_app_name" /\ last.ret # "Called") =>
        LET list == Ascending(Rendered(last.arg.tags))
        IN  /\ last.ret = "Ok"
            /\ list # <<>> =>
                   last.bytes = last.arg.application_name \o <<123>>
                                \o join(list, <<44>>) \o <<125>>
            /\ list = <<>> => last.bytes = last.arg.application_name
            /\ (last.arg.tags = ExampleTags /\ last.arg.application_name = ExampleName)
                   => last.bytes = ExampleMerged
            \* "a-b=2" is below "a=1", while "a" is below "a-b"
            /\ DOMAIN last.arg.tags = {<<97>>, <<97, 45, 98>>} =>
                   last.bytes = last.arg.application_name
                                \o <<123, 97, 45, 98, 61, 50, 44, 97, 61, 49, 125>>

C13_Witness ==
    /\ last.op = "merge_tags_with_app_name"
    /\ last.ret = "Ok"
    /\ last.arg.tags = ExampleTags
    /\ last.arg.application_name = ExampleName
    /\ last.arg.order = <<ReservedKey, <<114, 101, 103, 105, 111, 110>>, <<101, 110, 118>> >>
    /\ last.bytes = ExampleMerged

\* what is written before the frames of an entry
ThreadPrefix(key, with_thread_name) ==
    IF ~with_thread_name THEN ""
    ELSE IF key.thread_name # "" THEN key.thread_name \o ";"
    ELSE ToString(key.thread_id) \o ";"

\* C18 as claimed: fold of a Report whose one entry has no frames returns Ok
\* and has written the thread prefix (when thread names are included), a
\* space, the count and a newline.
C18_EmptyFrames ==
    (last.op = "fold" /\ last.ret # "Called" /\ Len(last.arg.report) = 1
        /\ last.arg.report[1].key.frames = <<>>) =>
        /\ last.ret = "Ok"
        /\ last.bytes = ThreadPrefix(last.arg.report[1].key, last.arg.with_thread_name)
                        \o " " \o ToString(last.arg.report[1].value) \o "\n"

\* the order of u64 and the distance of two values that lie together
U64Less(a, b) ==
    IF a.top = b.top THEN (IF a.top THEN a.off > b.off ELSE a.off < b.off)
    ELSE b.top

U64Distance(a, b) ==
    IF a.top = b.top THEN (IF a.top THEN a.off - b.off ELSE b.off - a.off) ELSE -1

\* C14 as claimed: for every window_start, an ingest of a non-empty body
\* issues a request with from = window_start - window_start mod 10 and
\* until = from + 10: from is a multiple of 10, from <= window_start < until,
\* until - from = 10, and no step of the arithmetic overflows.
C14_Window ==
    (last.op = "ingest" /\ last.bytes # <<>>) =>
        /\ last.ret # "Panic"
        /\ Len(last.arg.posts) = 1
        /\ LET from == last.arg.posts[1].from
               until == last.arg.posts[1].until
           IN  /\ checked_rem(from, WindowWidth) = Some(0)
               /\ ~U64Less(last.arg.start, from)
               /\ U64Less(last.arg.start, until)
               /\ U64Distance(from, until) = WindowWidth
               /\ last.arg.start = U64(1005) => (from = U64(1000) /\ until = U64(1010))

\* C15 as claimed: an ingest whose request fails in the transport returns Ok.
C15_Swallowed ==
    (last.op = "ingest" /\ last.arg.posts # <<>> /\ ~last.arg.transportOk) =>
        last.ret = "Ok"

\* C15: an ingest that issues its request returns the error of the transport
\* when the request fails, and Ok only when the request succeeds.
C15_TransportErrorReturned ==
    (last.op = "ingest" /\ last.arg.posts # <<>>) =>
        /\ ~last.arg.transportOk => last.ret = "TransportError"
        /\ last.arg.transportOk => last.ret = "Ok"

C15_Witness ==
    /\ last.op = "ingest"
    /\ last.ret = "TransportError"
    /\ Len(last.arg.posts) = 1
    /\ last.arg.posts[1].body = last.bytes
    /\ last.bytes # <<>>

\* C16: a backend whose configuration has no pid stays Uninitialized without
\* a sampler: its initialize() returns MissingTarget, its start() NotReady,
\* its stop() and report() NotRunning; and an initialize() made in another
\* state returns AlreadyInitialized, whatever the pid.
C16_NoTargetStaysUninitialized ==
    /\ config.pid = None =>
           /\ state = "Uninitialized"
           /\ sampler = None
           /\ pc = "idle"
           /\ last.op = "initialize" => last.ret = "MissingTarget"
           /\ last.op = "start" => last.ret = "NotReady"
           /\ last.op \in {"stop", "report"} => last.ret = "NotRunning"
    /\ (last.op = "initialize" /\ last.pre # "Uninitialized") =>
           last.ret = "AlreadyInitialized"

C16_Witness ==
    /\ config.pid = None
    /\ last.op = "initialize"
    /\ last.ret = "MissingTarget"
    /\ state = "Uninitialized"
    /\ sampler = None

\* C17: when backend calls are made one at a time, the Report is empty
\* whenever no report() is in progress, the bytes of each successful
\* report() are the encoding of exactly the traces this call received, and
\* the counts of all outputs add up to the number of traces received: each
\* is counted in the output of the call that drained it and in no other.
C17_ReportClears ==
    pc = "idle" =>
        /\ is_empty(buffer)
        /\ OutputsTotal = records
        /\ outputs # <<>> =>
               /\ outputs[Len(outputs)] = to_string(RecordAll(EmptyReport, call.got))
               /\ BytesTotal(outputs[Len(outputs)]) = Len(call.got)

C17_Witness ==
    /\ pc = "idle"
    /\ last.op = "report"
    /\ last.ret = "Ok"
    /\ Len(outputs) = 2
    /\ BytesTotal(outputs[1]) = 1
    /\ BytesTotal(outputs[2]) = 1
    /\ records = 2
    /\ is_empty(buffer)

\* C19: a start() that passes the state check replaces both channels by
\* empty ones and drops what the old ones held, so that every trace a later
\* report() receives was sent after that start(): the traces received and
\* those still in the channel are exactly the traces sent since it.
C19_Fresh ==
    /\ epoch.got + Len(stack_chan) + Len(pending) = epoch.sent
    /\ pc \in {"traces", "encode", "clear"} => Len(call.got) <= epoch.sent

C19_Step ==
    ((\E ok \in BOOLEAN : start(ok)) /\ ~NotReady(state)) =>
        /\ stack_receiver' /\ error_receiver'
        /\ stack_chan' = <<>>
        /\ error_chan' = <<>>
        /\ pending' = None
        /\ epoch' = NoEpoch
        /\ UNCHANGED <<buffer, outputs, records>>

C19_FreshChannels == []C19_Fresh /\ [][C19_Step]_vars

C19_Witness ==
    /\ pc = "idle"
    /\ last.op = "report"
    /\ last.ret = "Ok"
    /\ queue_size > 0
    /\ sent = 2
    /\ epoch = [sent |-> 1, got |-> 1]
    /\ records = 1
    /\ Len(call.got) = 1
    /\ OutputsTotal = 1
    /\ stack_chan = <<>>

\* C20: the sampler is set exactly when the state is not Uninitialized, both
\* receivers are set when the state is Running, and no call returns the
\* error of a sampler or a receiver that is not set.
C20_SamplerAndReceivers ==
    /\ (sampler # None) <=> (state # "Uninitialized")
    /\ state = "Running" => (stack_receiver /\ error_receiver)
    /\ last.ret \notin {"SamplerNotSet", "ReceiverNotSet"}

C20_Witness ==
    /\ state = "Running"
    /\ sampler # None
    /\ stack_receiver
    /\ error_receiver
    /\ last.op = "report"
    /\ last.ret = "Ok"
    /\ last.bytes # <<>>

====
